---- MODULE Spec2Model ----
(***************************************************************************)
(* Hybrid search of the car-manual retrieval backend.                      *)
(*                                                                         *)
(* Three parts of the backend are modelled, each with its own              *)
(* specification over the shared variables:                                *)
(*                                                                         *)
(*   FusionSpec  app/db/repositories/search.py, the in-process reciprocal  *)
(*               rank fusion SearchRepository.hybrid_search_rrf applied to *)
(*               two ranked lists;                                         *)
(*   NativeSpec  app/db/repositories/search_new.py, the repository method  *)
(*               hybrid_search_rrf that sends a $rankFusion pipeline to    *)
(*               the store;                                                *)
(*   RouteSpec   app/api/routes/search.py, the POST /hybrid handler, from  *)
(*               request validation to the response.                       *)
(*                                                                         *)
(* Numbers.  Python computes the RRF sums in binary floating point; the    *)
(* model computes them as exact rationals <<n, d>> in lowest terms.        *)
(* Weights are counted in tenths (5 is 0.5) and component scores in        *)
(* hundredths (90 is 0.90, 1 is 0.01).                                     *)
(***************************************************************************)
EXTENDS Integers, Sequences, FiniteSets, TLC

VARIABLES
  request,         \* the tuning parameters of the request being served
  vector_results,  \* search.py: the vector ranked list passed to the fusion
  text_results,    \* search.py: the text ranked list passed to the fusion
  store,           \* search.py: what the fallback score lookups meet
  fused,           \* search.py: outcome of the latest hybrid_search_rrf call
  prev,            \* search.py: outcome of the call before it, same inputs
  scaled,          \* search.py: a call on rescaled vector scores, with the
                   \*            call on the unscaled ones in the same process
  idx_vector,      \* the store: chunk ids by similarity to the query vector
  idx_text,        \* the store: chunk ids by text relevance to the query
  query_embedding, \* the query vector: "unset", "vector", or "empty" (falsy)
  collection,      \* the repository's collection: "available" or None
  native,          \* search_new.py: outcome of a hybrid_search_rrf call
  heavier,         \* search_new.py: outcome of the same call with a larger
                   \*                vector_weight
  x_debug,         \* routes/search.py: the X-Debug header of the request
  pc,              \* routes/search.py: where the hybrid request is
  debug_mode,      \* routes/search.py: hybrid_search's local debug_mode
  debug_info,      \* routes/search.py: hybrid_search's local debug_info
  steps,           \* routes/search.py: the steps run for the request so far
  fusion_k,        \* the rank constant of the fusion run for the request
  response,        \* what the caller of the route receives
  vector_run,      \* search_new.py: outcome of the latest vector_search call
  text_run,        \* search_new.py: outcome of the latest text_search call
  legacy_run,      \* search.py: outcome of the latest text_search call
  endpoint,        \* routes/search.py: the route the request was posted to
  first,           \* the same request served before with another X-Debug
  cancelled,       \* the caller gave up while a store call was outstanding
  instance,        \* mongodb.py: MongoDB._instance, None or the object
  client,          \* mongodb.py: _client of the object, None or a client
  db,              \* mongodb.py: _db of the object, None or a database
  created,         \* mongodb.py: how many MongoDB objects were constructed
  connects,        \* mongodb.py: how many times _initialize_connection ran
  handed,          \* mongodb.py: the latest call on the handle and its answer
  documents,       \* the chunks collection, in the store's natural order
  documents_before,\* the collection before the latest chunk request
  chunk_op         \* routes/chunks.py: the latest chunk request and its answer

fusion_vars == <<vector_results, text_results, store, fused, prev, scaled>>
native_vars == <<idx_vector, idx_text, query_embedding, collection, native, heavier>>
route_vars == <<x_debug, pc, debug_mode, debug_info, steps, fusion_k, response>>
adapter_vars == <<vector_run, text_run, legacy_run>>
serve_vars == <<endpoint, first, cancelled>>
mongo_vars == <<instance, client, db, created, connects, handed>>
chunk_vars == <<documents, documents_before, chunk_op>>
vars == <<request, fusion_vars, native_vars, route_vars, adapter_vars, serve_vars, mongo_vars, chunk_vars>>

(***************************************************************************)
(* Bounds of the model.                                                    *)
(***************************************************************************)
MaxLen == 3      \* longest ranked list
MaxScale == 3    \* largest factor the vector raw scores are multiplied by

Ids == {"A", "B", "C", "D"}
None == "None"

(***************************************************************************)
(* Exact rationals.                                                        *)
(***************************************************************************)
RECURSIVE GCD(_, _)
GCD(a, b) == IF b = 0 THEN a ELSE GCD(b, a % b)

Frac(n, d) == LET g == GCD(n, d) IN <<n \div g, d \div g>>
FZero == <<0, 1>>
FOne == <<1, 1>>
FAdd(x, y) == Frac(x[1] * y[2] + y[1] * x[2], x[2] * y[2])
FDiv(x, y) == Frac(x[1] * y[2], x[2] * y[1])
FLess(x, y) == x[1] * y[2] < y[1] * x[2]

Min(a, b) == IF a < b THEN a ELSE b

(***************************************************************************)
(* Ranked lists: sequences of results with pairwise distinct chunk ids,    *)
(* best first.                                                             *)
(***************************************************************************)
DistinctSeqs(S, n) ==
  UNION { { s \in [1..m -> S] : \A i, j \in 1..m : i # j => s[i] # s[j] }
          : m \in 0..n }

Perms(S) == { s \in [1..Cardinality(S) -> S] :
                \A i, j \in 1..Cardinality(S) : i # j => s[i] # s[j] }

IdsOf(results) == { results[i].id : i \in 1..Len(results) }

\* enumerate(...): the 0-based position of chunk_id in the list
RankOf(results, chunk_id) ==
  (CHOOSE i \in 1..Len(results) : results[i].id = chunk_id) - 1

ItemOf(results, chunk_id) == results[RankOf(results, chunk_id) + 1]

\* vector_search: score and vector_score are the similarity, descending
VectorList(ids, c) ==
  [i \in 1..Len(ids) |->
     [id |-> ids[i], score |-> c * (100 - 10 * i),
      vector_score |-> c * (100 - 10 * i), text_score |-> None]]

\* text_search: scores divided by the best one, so the first is 1.00
TextList(ids) ==
  [i \in 1..Len(ids) |->
     [id |-> ids[i], score |-> 100 - 20 * (i - 1),
      vector_score |-> None, text_score |-> 100 - 20 * (i - 1)]]

\* the same list with every raw score multiplied by c
ScaleScores(results, c) ==
  [i \in 1..Len(results) |->
     [results[i] EXCEPT !.score = c * @, !.vector_score = c * @]]

(***************************************************************************)
(* models/search.py: a SearchResult needs its required fields.             *)
(***************************************************************************)
SearchResultRequired == {"score", "text"}

SearchResultValid(given) == SearchResultRequired \subseteq given

(***************************************************************************)
(* search.py: SearchRepository.hybrid_search_rrf and its helpers.          *)
(***************************************************************************)
\* calculate_vector_score: the store's similarity for the chunk, 0.01 when
\* the chunk is not among the vector hits, 0.0 when the lookup raises
calculate_vector_score(st, chunk_id) ==
  CASE st = "match" -> 30
    [] st = "nomatch" -> 1
    [] OTHER -> 0

\* calculate_text_score: raw / max of the chunk when the text query matches
\* it, 0.0 when it does not or when the lookup raises
calculate_text_score(st, chunk_id) ==
  CASE st = "match" -> 50
    [] OTHER -> 0

\* as if the vector side added its raw score over the rank term
ResultMapEntryRawBlend(vr, tr, k, st, chunk_id) ==
  LET inV == chunk_id \in IdsOf(vr)
      inT == chunk_id \in IdsOf(tr)
      vector_score == IF inV THEN ItemOf(vr, chunk_id).vector_score
                      ELSE calculate_vector_score(st, chunk_id)
      text_score == IF inT THEN ItemOf(tr, chunk_id).text_score
                    ELSE calculate_text_score(st, chunk_id)
      rrf_v == IF inV THEN Frac(vector_score, 100 * (k + RankOf(vr, chunk_id)))
               ELSE FZero
      rrf_t == IF inT THEN Frac(1, k + RankOf(tr, chunk_id)) ELSE FZero
  IN [id |-> chunk_id, vector_score |-> vector_score,
      text_score |-> text_score, rrf_score |-> FAdd(rrf_v, rrf_t)]

\* the body of the loop over all_chunk_ids: one entry of result_map
ResultMapEntry(vr, tr, k, st, chunk_id) ==
  LET inV == chunk_id \in IdsOf(vr)
      inT == chunk_id \in IdsOf(tr)
      vector_score == IF inV THEN ItemOf(vr, chunk_id).vector_score
                      ELSE calculate_vector_score(st, chunk_id)
      text_score == IF inT THEN ItemOf(tr, chunk_id).text_score
                    ELSE calculate_text_score(st, chunk_id)
      rrf_v == IF inV THEN Frac(1, k + RankOf(vr, chunk_id)) ELSE FZero
      rrf_t == IF inT THEN Frac(1, k + RankOf(tr, chunk_id)) ELSE FZero
  IN [id |-> chunk_id, vector_score |-> vector_score,
      text_score |-> text_score, rrf_score |-> FAdd(rrf_v, rrf_t)]

\* as if only the ids found by both searches were fused
ResultMapIntersection(vr, tr, k, st) ==
  { ResultMapEntry(vr, tr, k, st, chunk_id) : chunk_id \in IdsOf(vr) \cap IdsOf(tr) }

\* result_map after the loop over all_chunk_ids
ResultMap(vr, tr, k, st) ==
  { ResultMapEntry(vr, tr, k, st, chunk_id) : chunk_id \in IdsOf(vr) \cup IdsOf(tr) }

EntryOf(result_map, chunk_id) == CHOOSE e \in result_map : e.id = chunk_id

\* max(..., default=1.0) over the rrf scores; raised marks the ValueError
\* that max() of nothing without a default would be
MaxRrfScoreNoDefault(result_map) ==
  IF result_map = {} THEN [raised |-> TRUE, value |-> FOne]
  ELSE LET S == { e.rrf_score : e \in result_map }
       IN [raised |-> FALSE, value |-> CHOOSE m \in S : \A x \in S : ~FLess(m, x)]

MaxRrfScore(result_map) ==
  IF result_map = {} THEN [raised |-> FALSE, value |-> FOne]
  ELSE LET S == { e.rrf_score : e \in result_map }
       IN [raised |-> FALSE, value |-> CHOOSE m \in S : \A x \in S : ~FLess(m, x)]

\* list.sort(key=score, reverse=True): stable, descending
RECURSIVE InsertDescending(_, _)
InsertDescending(x, s) ==
  IF s = <<>> THEN <<x>>
  ELSE IF FLess(x.score, Head(s).score)
       THEN <<Head(s)>> \o InsertDescending(x, Tail(s))
       ELSE <<x>> \o s

RECURSIVE SortDescending(_)
SortDescending(s) ==
  IF s = <<>> THEN <<>>
  ELSE InsertDescending(Head(s), SortDescending(Tail(s)))

\* the fields the call at lines 253-258 passes to SearchResult
CombinedResultFields == {"score", "vector_score", "text_score", "chunk"}

NoRun == [state |-> "none", error |-> "", results |-> <<>>, result_map |-> {}]

\* order: the order in which the set all_chunk_ids is iterated; it follows
\* the hashes of the id strings, which differ from one interpreter process
\* to the next
hybrid_search_rrf(vr, tr, k, st, order) ==
  LET result_map == ResultMap(vr, tr, k, st)
      max_rrf == MaxRrfScore(result_map)
      max_rrf_score == max_rrf.value
      combined_results ==
        [i \in 1..Len(order) |->
           LET data == EntryOf(result_map, order[i])
           IN [id |-> data.id,
               score |-> IF FLess(FZero, max_rrf_score)
                         THEN FDiv(data.rrf_score, max_rrf_score) ELSE FZero,
               vector_score |-> data.vector_score,
               text_score |-> data.text_score]]
  IN IF max_rrf.raised
     THEN [state |-> "raised", error |-> "ValueError", results |-> <<>>,
           result_map |-> result_map]
     ELSE IF order # <<>> /\ ~SearchResultValid(CombinedResultFields)
     THEN [state |-> "raised", error |-> "ValidationError", results |-> <<>>,
           result_map |-> result_map]
     ELSE [state |-> "returned", error |-> "",
           results |-> SortDescending(combined_results),
           result_map |-> result_map]

(***************************************************************************)
(* search_new.py: SearchRepository.hybrid_search_rrf, which has the store  *)
(* fuse the two searches with a $rankFusion stage.  The stages are the     *)
(* ones the method writes into its pipeline, with the meaning the store    *)
(* gives them: $rankFusion ranks every document of either input pipeline   *)
(* by the sum of weight / (60 + rank) over the pipelines that found it,    *)
(* ranks counted from 1, best first.                                       *)
(***************************************************************************)
RankFusionK == 60

Range(seq) == { seq[i] : i \in 1..Len(seq) }

\* the rank scoreDetails reports: the 1-based position, 0 for a document the
\* pipeline did not find
DetailsRank(ids, chunk_id) ==
  IF chunk_id \in Range(ids)
  THEN CHOOSE i \in 1..Len(ids) : ids[i] = chunk_id
  ELSE 0

\* vectorPipeline: $vectorSearch with numCandidates and limit
VectorPipeline(vidx, num_candidates, intermediate_limit) ==
  SubSeq(vidx, 1, Min(Len(vidx), Min(num_candidates, intermediate_limit)))

\* fullTextPipeline: $search, every match
FullTextPipeline(tidx) == tidx

\* as if the two weights were attached to the wrong pipelines
RankFusionScoreSwapped(vp, tp, vector_weight, text_weight, chunk_id) ==
  LET term(weight, rank) ==
        IF rank = 0 THEN FZero ELSE Frac(weight, 10 * (RankFusionK + rank))
  IN FAdd(term(text_weight, DetailsRank(vp, chunk_id)),
          term(vector_weight, DetailsRank(tp, chunk_id)))

\* $rankFusion with combination.weights: the score of one document
RankFusionScore(vp, tp, vector_weight, text_weight, chunk_id) ==
  LET term(weight, rank) ==
        IF rank = 0 THEN FZero ELSE Frac(weight, 10 * (RankFusionK + rank))
  IN FAdd(term(vector_weight, DetailsRank(vp, chunk_id)),
          term(text_weight, DetailsRank(tp, chunk_id)))

\* $rankFusion: the documents of both pipelines, best score first; order is
\* the order the store leaves documents of equal score in
RankFusionStage(vp, tp, vector_weight, text_weight, order) ==
  SortDescending(
    [i \in 1..Len(order) |->
       [id |-> order[i],
        score |-> RankFusionScore(vp, tp, vector_weight, text_weight, order[i]),
        vs_rank |-> DetailsRank(vp, order[i]), vs_weight |-> vector_weight,
        fts_rank |-> DetailsRank(tp, order[i]), fts_weight |-> text_weight]])

\* as if the pipeline had no $limit stage
LimitStageMissing(docs, limit) == docs

\* {"$limit": limit}
LimitStage(docs, limit) == SubSeq(docs, 1, Min(Len(docs), limit))

\* $addFields vs_score / fts_score: weight * 1 / (60 + rank), 0 for rank 0
ContributionScore(weight, rank) ==
  IF rank # 0 THEN Frac(weight, 10 * (RankFusionK + rank)) ELSE FZero

\* as if every embedding, the empty one too, went on to the store
not_query_embedding_skipped(embedding) == FALSE

\* `if not query_embedding:` in the routes and in the repository: None and
\* the empty list count as no embedding
not_query_embedding(embedding) == embedding # "vector"

NoNative == [state |-> "none", error |-> "", results |-> <<>>, vector_weight |-> 0]

\* outcome: how collection.aggregate ends; order: the store's order of ties
hybrid_search_rrf_native(embedding, coll, limit, vector_weight, text_weight, num_candidates_multiplier, vidx, tidx, outcome, order) ==
  LET num_candidates == limit * num_candidates_multiplier
      intermediate_limit == limit * 2
      vp == VectorPipeline(vidx, num_candidates, intermediate_limit)
      tp == FullTextPipeline(tidx)
      docs == LimitStage(RankFusionStage(vp, tp, vector_weight, text_weight, order),
                         limit)
      search_results ==
        [i \in 1..Len(docs) |->
           [id |-> docs[i].id, score |-> docs[i].score,
            vector_score |-> ContributionScore(docs[i].vs_weight, docs[i].vs_rank),
            text_score |-> ContributionScore(docs[i].fts_weight, docs[i].fts_rank)]]
      answer(err, res) == [state |-> "returned", error |-> err, results |-> res,
                           vector_weight |-> vector_weight]
  IN IF not_query_embedding(embedding) THEN answer("no query embedding", <<>>)
     ELSE IF coll = None THEN answer("no collection", <<>>)
     ELSE IF outcome # "ok" THEN answer(outcome, <<>>)
     ELSE answer("", search_results)

\* the documents the two input pipelines of the call hand to $rankFusion
NativeCandidates(limit, num_candidates_multiplier, vidx, tidx) ==
  Range(VectorPipeline(vidx, limit * num_candidates_multiplier, limit * 2))
    \cup Range(FullTextPipeline(tidx))

AggregateOutcomes == {"ok", "OperationFailure", "Exception"}
WeightValues == {0, 5, 10}

FusionIdle ==
  /\ vector_results = <<>>
  /\ text_results = <<>>
  /\ store = "down"
  /\ fused = NoRun
  /\ prev = NoRun
  /\ scaled = [factor |-> 1, base |-> NoRun, run |-> NoRun]

NativeIdle ==
  /\ idx_vector = <<>>
  /\ idx_text = <<>>
  /\ query_embedding = "unset"
  /\ collection = None
  /\ native = NoNative
  /\ heavier = NoNative

\* debug_info is None or a dict; of a dict the model keeps the keys and the
\* error message
NoDebugInfo == [is_none |-> TRUE, keys |-> {}, error |-> ""]
EmptyDict == [is_none |-> FALSE, keys |-> {}, error |-> ""]

NoResponse == [status |-> 0, results |-> <<>>, debug_info |-> NoDebugInfo,
               detail |-> ""]

NoAdapterRun == [state |-> "none", error |-> "", results |-> <<>>]

NoLegacyRun == [state |-> "none", error |-> "", results |-> <<>>,
                raw_scores |-> <<>>, normalized |-> <<>>]

NoFirst == [sent |-> FALSE]

AdapterIdle ==
  /\ vector_run = NoAdapterRun
  /\ text_run = NoAdapterRun
  /\ legacy_run = NoLegacyRun

ServeIdle ==
  /\ endpoint = "hybrid"
  /\ first = NoFirst
  /\ cancelled = FALSE

NoCall == [op |-> "none", n |-> 0]

MongoIdle ==
  /\ instance = [is_none |-> TRUE, object |-> 0]
  /\ client = None
  /\ db = None
  /\ created = 0
  /\ connects = 0
  /\ handed = NoCall

ChunkIdle ==
  /\ documents = <<>>
  /\ documents_before = <<>>
  /\ chunk_op = NoCall

RouteIdle ==
  /\ AdapterIdle
  /\ ServeIdle
  /\ MongoIdle
  /\ ChunkIdle
  /\ x_debug = None
  /\ pc = "idle"
  /\ debug_mode = FALSE
  /\ debug_info = NoDebugInfo
  /\ steps = {}
  /\ fusion_k = 0
  /\ response = NoResponse

(***************************************************************************)
(* FusionSpec: calls of search.py's hybrid_search_rrf on bounded inputs.   *)
(***************************************************************************)
FusionRequests ==
  { [limit |-> 5, rrf_k |-> kk, vector_weight |-> w[1], text_weight |-> w[2],
     num_candidates_multiplier |-> 15]
    : kk \in {1, 60}, w \in {<<5, 5>>, <<10, 1>>} }

\* The fusion treats chunk ids as opaque, so the vector list is taken up to a
\* renaming of the ids: a prefix of A, B, C, D.  The text list is any list.
VectorIdLists == { SubSeq(<<"A", "B", "C", "D">>, 1, n) : n \in 0..Min(MaxLen, 4) }

FusionInit ==
  /\ request \in FusionRequests
  /\ vector_results \in { VectorList(ids, 1) : ids \in VectorIdLists }
  /\ text_results \in { TextList(ids) : ids \in DistinctSeqs(Ids, MaxLen) }
  /\ store \in {"down", "nomatch", "match"}
  /\ fused = NoRun
  /\ prev = NoRun
  /\ scaled = [factor |-> 1, base |-> NoRun, run |-> NoRun]
  /\ NativeIdle
  /\ RouteIdle

AllChunkIds == IdsOf(vector_results) \cup IdsOf(text_results)

\* a call of hybrid_search_rrf(vector_results, text_results, query, embedding, k)
Fuse ==
  /\ fused = NoRun
  /\ \E order \in Perms(AllChunkIds) :
       fused' = hybrid_search_rrf(vector_results, text_results,
                                  request.rrf_k, store, order)
  /\ UNCHANGED <<request, vector_results, text_results, store, prev, scaled>>
  /\ UNCHANGED <<native_vars, route_vars, adapter_vars, serve_vars>>
  /\ UNCHANGED <<mongo_vars, chunk_vars>>

\* a second call with the same arguments, in whatever process serves it
FuseAgain ==
  /\ fused # NoRun
  /\ prev = NoRun
  /\ prev' = fused
  /\ \E order \in Perms(AllChunkIds) :
       fused' = hybrid_search_rrf(vector_results, text_results,
                                  request.rrf_k, store, order)
  /\ UNCHANGED <<request, vector_results, text_results, store, scaled>>
  /\ UNCHANGED <<native_vars, route_vars, adapter_vars, serve_vars>>
  /\ UNCHANGED <<mongo_vars, chunk_vars>>

\* two calls in one process, the second with the vector raw scores multiplied
FuseScaled ==
  /\ scaled.base = NoRun
  /\ \E c \in 2..MaxScale, order \in Perms(AllChunkIds) :
       scaled' = [factor |-> c,
                  base |-> hybrid_search_rrf(vector_results, text_results,
                                             request.rrf_k, store, order),
                  run |-> hybrid_search_rrf(ScaleScores(vector_results, c),
                                            text_results, request.rrf_k,
                                            store, order)]
  /\ UNCHANGED <<request, vector_results, text_results, store, fused, prev>>
  /\ UNCHANGED <<native_vars, route_vars, adapter_vars, serve_vars>>
  /\ UNCHANGED <<mongo_vars, chunk_vars>>

FusionNext == Fuse \/ FuseAgain \/ FuseScaled

FusionSpec == FusionInit /\ [][FusionNext]_vars

(***************************************************************************)
(* NativeSpec: calls of search_new.py's hybrid_search_rrf.                 *)
(***************************************************************************)
\* the default multiplier with every weight, and the smallest multiplier the
\* request model lets through with the default weights
NativeRequests ==
  { [limit |-> l, rrf_k |-> 60, vector_weight |-> vw, text_weight |-> tw,
     num_candidates_multiplier |-> 15]
    : l \in {1, 2}, vw \in WeightValues, tw \in WeightValues }
  \cup
  { [limit |-> l, rrf_k |-> 60, vector_weight |-> 5, text_weight |-> 5,
     num_candidates_multiplier |-> 1] : l \in {1, 2} }

NativeInit ==
  /\ request \in NativeRequests
  /\ idx_vector \in VectorIdLists
  /\ idx_text \in DistinctSeqs(Ids, MaxLen)
  /\ \E pre \in {<<"vector", "available">>, <<"empty", "available">>,
                  <<"vector", None>>} :
       query_embedding = pre[1] /\ collection = pre[2]
  /\ native = NoNative
  /\ heavier = NoNative
  /\ FusionIdle
  /\ RouteIdle

RequestCandidates ==
  NativeCandidates(request.limit, request.num_candidates_multiplier,
                   idx_vector, idx_text)

\* hybrid_search_rrf(query_text, query_embedding, limit, vector_weight,
\*                   text_weight, num_candidates_multiplier)
NativeSearch ==
  /\ native = NoNative
  /\ \E outcome \in AggregateOutcomes, order \in Perms(RequestCandidates) :
       native' = hybrid_search_rrf_native(
                   query_embedding, collection, request.limit,
                   request.vector_weight, request.text_weight,
                   request.num_candidates_multiplier,
                   idx_vector, idx_text, outcome, order)
  /\ UNCHANGED <<request, idx_vector, idx_text, query_embedding, collection, heavier>>
  /\ UNCHANGED <<fusion_vars, route_vars, adapter_vars, serve_vars>>
  /\ UNCHANGED <<mongo_vars, chunk_vars>>

\* the same call with a larger vector_weight and the same text_weight
NativeSearchHeavier ==
  /\ heavier = NoNative
  /\ \E w \in WeightValues, outcome \in AggregateOutcomes,
        order \in Perms(RequestCandidates) :
       /\ w > request.vector_weight
       /\ heavier' = hybrid_search_rrf_native(
                       query_embedding, collection, request.limit,
                       w, request.text_weight,
                       request.num_candidates_multiplier,
                       idx_vector, idx_text, outcome, order)
  /\ UNCHANGED <<request, idx_vector, idx_text, query_embedding, collection, native>>
  /\ UNCHANGED <<fusion_vars, route_vars, adapter_vars, serve_vars>>
  /\ UNCHANGED <<mongo_vars, chunk_vars>>

NativeNext == NativeSearch \/ NativeSearchHeavier

NativeSpec == NativeInit /\ [][NativeNext]_vars

(***************************************************************************)
(* search_new.py: the two single-method adapters, vector_search and        *)
(* text_search, and search.py's text_search with its divide-by-max         *)
(* normalisation.  AdapterSpec calls them on bounded inputs.               *)
(***************************************************************************)
\* as if a failing query were re-raised to the caller
vector_search_reraise(embedding, coll, limit, num_candidates_multiplier, vidx, outcome) ==
  IF embedding # "vector" \/ coll = None
  THEN [state |-> "returned", error |-> "", results |-> <<>>]
  ELSE [state |-> "raised", error |-> outcome, results |-> <<>>]

\* outcome: how collection.aggregate and the result mapping end
vector_search(embedding, coll, limit, num_candidates_multiplier, vidx, outcome) ==
  LET num_candidates == limit * num_candidates_multiplier
      results == SubSeq(vidx, 1, Min(Len(vidx), Min(num_candidates, limit)))
      search_results ==
        [i \in 1..Len(results) |->
           [id |-> results[i], score |-> 100 - 10 * i,
            vector_score |-> 100 - 10 * i, text_score |-> None]]
      answer(err, res) == [state |-> "returned", error |-> err, results |-> res]
  IN IF not_query_embedding(embedding) THEN answer("no query embedding", <<>>)
     ELSE IF coll = None THEN answer("no collection", <<>>)
     ELSE IF outcome # "ok" THEN answer(outcome, <<>>)
     ELSE answer("", search_results)

text_search(coll, limit, tidx, outcome) ==
  LET results == SubSeq(tidx, 1, Min(Len(tidx), limit))
      search_results ==
        [i \in 1..Len(results) |->
           [id |-> results[i], score |-> 100 - 10 * i,
            vector_score |-> None, text_score |-> 100 - 10 * i]]
      answer(err, res) == [state |-> "returned", error |-> err, results |-> res]
  IN IF coll = None THEN answer("no collection", <<>>)
     ELSE IF outcome # "ok" THEN answer(outcome, <<>>)
     ELSE answer("", search_results)

RECURSIVE MaxOf(_)
MaxOf(scores) ==
  IF Len(scores) = 1 THEN scores[1]
  ELSE LET m == MaxOf(Tail(scores))
       IN IF scores[1] >= m THEN scores[1] ELSE m

\* search.py text_search: max_score and normalized_score
NormalizedScores(raw_scores) ==
  LET max_score == IF raw_scores # <<>> THEN MaxOf(raw_scores) ELSE 1
  IN [i \in 1..Len(raw_scores) |->
        IF max_score > 0 THEN Frac(raw_scores[i], max_score) ELSE FZero]

\* the fields the call at lines 113-117 passes to SearchResult
LegacyTextResultFields == {"score", "text_score", "chunk"}

\* search.py text_search; raw_scores: the textScore of the documents found,
\* best first; outcome: how create_index and find end.  normalized: the
\* scores computed by line 102 before the method returned or raised, which
\* is in the first pass of the loop when SearchResult rejects its arguments
legacy_text_search(coll, raw_scores, outcome) ==
  LET normalized == NormalizedScores(raw_scores)
  IN IF coll = None
     THEN [state |-> "returned", error |-> "", results |-> <<>>,
           raw_scores |-> <<>>, normalized |-> <<>>]
     ELSE IF outcome # "ok"
     THEN [state |-> "raised", error |-> outcome, results |-> <<>>,
           raw_scores |-> <<>>, normalized |-> <<>>]
     ELSE IF raw_scores # <<>> /\ ~SearchResultValid(LegacyTextResultFields)
     THEN [state |-> "raised", error |-> "ValidationError", results |-> <<>>,
           raw_scores |-> raw_scores, normalized |-> SubSeq(normalized, 1, 1)]
     ELSE [state |-> "returned", error |-> "", results |-> normalized,
           raw_scores |-> raw_scores, normalized |-> normalized]

RawScoreValues == {0, 1, 3}

\* the store sorts by textScore: lists of raw scores, best first
RawScoreLists ==
  { r \in UNION { [1..m -> RawScoreValues] : m \in 0..MaxLen } :
      \A i \in 1..Len(r) - 1 : r[i] >= r[i + 1] }

AdapterRequests ==
  { [limit |-> l, rrf_k |-> 60, vector_weight |-> 5, text_weight |-> 5,
     num_candidates_multiplier |-> 10] : l \in {1, 2} }

AdapterInit ==
  /\ request \in AdapterRequests
  /\ idx_vector \in VectorIdLists
  /\ idx_text \in {<<>>, <<"B", "D", "A">>}
  /\ \E pre \in {<<"vector", "available">>, <<"empty", "available">>,
                  <<"vector", None>>} :
       query_embedding = pre[1] /\ collection = pre[2]
  /\ native = NoNative
  /\ heavier = NoNative
  /\ FusionIdle
  /\ RouteIdle

\* search_new.py: vector_search(query_embedding, limit, num_candidates_multiplier)
VectorSearch ==
  /\ vector_run = NoAdapterRun
  /\ \E outcome \in AggregateOutcomes :
       vector_run' = vector_search(query_embedding, collection, request.limit,
                                   request.num_candidates_multiplier,
                                   idx_vector, outcome)
  /\ UNCHANGED <<request, fusion_vars, native_vars, route_vars, serve_vars>>
  /\ UNCHANGED <<text_run, legacy_run>>
  /\ UNCHANGED <<mongo_vars, chunk_vars>>

\* search_new.py: text_search(query_text, limit, fuzzy, max_edits)
TextSearch ==
  /\ text_run = NoAdapterRun
  /\ \E outcome \in AggregateOutcomes :
       text_run' = text_search(collection, request.limit, idx_text, outcome)
  /\ UNCHANGED <<request, fusion_vars, native_vars, route_vars, serve_vars>>
  /\ UNCHANGED <<vector_run, legacy_run>>
  /\ UNCHANGED <<mongo_vars, chunk_vars>>

\* search.py: text_search(query, limit)
LegacyTextSearch ==
  /\ legacy_run = NoLegacyRun
  /\ \E raw_scores \in RawScoreLists, outcome \in {"ok", "Exception"} :
       legacy_run' = legacy_text_search(collection, raw_scores, outcome)
  /\ UNCHANGED <<request, fusion_vars, native_vars, route_vars, serve_vars>>
  /\ UNCHANGED <<vector_run, text_run>>
  /\ UNCHANGED <<mongo_vars, chunk_vars>>

AdapterNext == VectorSearch \/ TextSearch \/ LegacyTextSearch

AdapterSpec == AdapterInit /\ [][AdapterNext]_vars

(***************************************************************************)
(* RouteSpec: routes/search.py, POST /hybrid, from the request body to the *)
(* response.  The handler's steps are its stretches between awaits.        *)
(***************************************************************************)
\* str.lower() on the header values the model sends
Lower(value) ==
  CASE value = "TRUE" -> "true"
    [] value = "True" -> "true"
    [] OTHER -> value

get_debug_flag(header) == header # None /\ Lower(header) = "true"

\* models/search.py: the request passes when every field is in its range
HybridSearchRequestNoLowerBound(r) ==
  /\ r.limit <= 20
  /\ r.rrf_k <= 100
  /\ r.vector_weight <= 10
  /\ r.text_weight <= 10
  /\ r.num_candidates_multiplier <= 50

HybridSearchRequestValid(r) ==
  /\ r.limit >= 1 /\ r.limit <= 20
  /\ r.rrf_k >= 1 /\ r.rrf_k <= 100
  /\ r.vector_weight >= 0 /\ r.vector_weight <= 10
  /\ r.text_weight >= 0 /\ r.text_weight <= 10
  /\ r.num_candidates_multiplier >= 1 /\ r.num_candidates_multiplier <= 50

\* the keyword arguments hybrid_search passes to search_repo.hybrid_search_rrf
HybridCallKeywords ==
  {"query_text", "query_embedding", "limit", "vector_weight", "text_weight",
   "num_candidates_multiplier", "rrf_k"}

\* the parameters search_new.py's hybrid_search_rrf declares, and the ones
\* among them without a default
HybridSearchRrfParameters ==
  {"query_text", "query_embedding", "limit", "vector_weight", "text_weight",
   "num_candidates_multiplier", "use_native_rankfusion"}

HybridSearchRrfRequired == {"query_text", "query_embedding"}

\* Python binds a call by keywords when each keyword names a parameter and
\* each parameter without a default is given; otherwise it raises TypeError
CallBinds(keywords, parameters, required) ==
  /\ keywords \subseteq parameters
  /\ required \subseteq keywords

\* debug_info["error"] = message: a TypeError when debug_info is None
SetError(info, message) ==
  IF info.is_none
  THEN [raised |-> TRUE, value |-> info]
  ELSE [raised |-> FALSE,
        value |-> [info EXCEPT !.keys = @ \cup {"error"}, !.error = message]]

SearchResponse(results, info) ==
  [status |-> 200, results |-> results, debug_info |-> info, detail |-> ""]

\* main.py: what global_exception_handler answers for an escaped exception
global_exception_handler ==
  [status |-> 500, results |-> <<>>, debug_info |-> NoDebugInfo,
   detail |-> "Internal server error"]

\* hybrid_search's except block, entered with exception e
ExceptHandler(mode, info, e) ==
  LET error_message == e
      set == SetError(info, error_message)
  IN IF mode
     THEN IF set.raised
          THEN global_exception_handler
          ELSE SearchResponse(<<>>, [set.value EXCEPT !.keys = @ \cup {"traceback"}])
     ELSE [status |-> 500, results |-> <<>>, debug_info |-> NoDebugInfo,
           detail |-> error_message]

\* the two early returns of hybrid_search: note the error when in debug
\* mode, answer with no results
EarlyReturn(mode, info, error_message) ==
  LET set == SetError(info, error_message)
  IN IF mode
     THEN IF set.raised
          THEN ExceptHandler(mode, info, "TypeError")
          ELSE SearchResponse(<<>>, set.value)
     ELSE SearchResponse(<<>>, info)

HeaderValues == {None, "true", "TRUE", "false"}

RouteRequests ==
  { [limit |-> l, rrf_k |-> kk, vector_weight |-> vw, text_weight |-> tw,
     num_candidates_multiplier |-> 15]
    : l \in {0, 1, 2, 21}, kk \in {0, 1, 60, 101},
      vw \in {-1, 0, 5, 11}, tw \in {5, 11} }

\* /vector and /text take limit (and fields that do not steer the handler);
\* the model keeps one shape of request, the fields a route does not have at
\* the defaults of HybridSearchRequest
SingleRouteRequests ==
  { [limit |-> l, rrf_k |-> 60, vector_weight |-> 5, text_weight |-> 5,
     num_candidates_multiplier |-> 10] : l \in {0, 1, 2, 21} }

Endpoints == {"vector", "text", "hybrid"}

RequestsOf(e) == IF e = "hybrid" THEN RouteRequests ELSE SingleRouteRequests

\* models/search.py: VectorSearchRequest and TextSearchRequest
VectorSearchRequestValid(r) ==
  /\ r.limit >= 1 /\ r.limit <= 20
  /\ r.num_candidates_multiplier >= 1 /\ r.num_candidates_multiplier <= 50

TextSearchRequestValid(r) == r.limit >= 1 /\ r.limit <= 20

RequestValid(e, r) ==
  CASE e = "hybrid" -> HybridSearchRequestValid(r)
    [] e = "vector" -> VectorSearchRequestValid(r)
    [] e = "text" -> TextSearchRequestValid(r)

\* the except block of vector_search and of text_search, entered with e
RouteExcept(mode, info, e) ==
  LET error_message == e
      set == SetError(info, error_message)
  IN IF mode
     THEN IF set.raised
          THEN global_exception_handler
          ELSE SearchResponse(<<>>, set.value)
     ELSE [status |-> 500, results |-> <<>>, debug_info |-> NoDebugInfo,
           detail |-> error_message]

RouteInit ==
  /\ endpoint \in Endpoints
  /\ request \in RequestsOf(endpoint)
  /\ x_debug \in HeaderValues
  /\ pc = "received"
  /\ debug_mode = FALSE
  /\ debug_info = NoDebugInfo
  /\ steps = {}
  /\ fusion_k = 0
  /\ response = NoResponse
  /\ idx_vector \in VectorIdLists
  /\ idx_text \in {<<>>, <<"B", "D", "A">>}
  /\ query_embedding = "unset"
  /\ collection \in {"available", None}
  /\ native = NoNative
  /\ heavier = NoNative
  /\ FusionIdle
  /\ AdapterIdle
  /\ MongoIdle
  /\ ChunkIdle
  /\ first = NoFirst
  /\ cancelled = FALSE

\* the body is parsed into the route's request model before the handler is
\* called; a body that does not pass is answered with 422
ValidateRequest ==
  /\ pc = "received"
  /\ IF RequestValid(endpoint, request)
     THEN pc' = "handler" /\ UNCHANGED response
     ELSE /\ pc' = "done"
          /\ response' = [status |-> 422, results |-> <<>>,
                          debug_info |-> NoDebugInfo, detail |-> "validation"]
  /\ UNCHANGED <<request, x_debug, debug_mode, debug_info, steps, fusion_k>>
  /\ UNCHANGED <<fusion_vars, native_vars, adapter_vars, serve_vars>>
  /\ UNCHANGED <<mongo_vars, chunk_vars>>

\* hybrid_search up to the embedding call: the debug flag, debug_mode forced
\* on, the repository and its collection
HandlerEnter ==
  /\ endpoint = "hybrid"
  /\ pc = "handler"
  /\ LET mode == get_debug_flag(x_debug)
         info == IF mode
                 THEN [EmptyDict EXCEPT !.keys = {"request"}]
                 ELSE NoDebugInfo
     IN /\ debug_mode' = TRUE
        /\ IF collection = None
           THEN /\ response' = EarlyReturn(TRUE, info, "MongoDB collection is not available")
                /\ debug_info' = response'.debug_info
                /\ pc' = "done"
           ELSE /\ debug_info' = info
                /\ pc' = "embedding"
                /\ UNCHANGED response
  /\ steps' = steps \cup {"hybrid_search"}
  /\ UNCHANGED <<request, x_debug, fusion_k>>
  /\ UNCHANGED <<fusion_vars, native_vars, adapter_vars, serve_vars>>
  /\ UNCHANGED <<mongo_vars, chunk_vars>>

\* embedding_service.generate_embedding(request.query) returns a vector,
\* returns an empty one, or raises
GenerateEmbedding ==
  /\ pc = "embedding"
  /\ steps' = steps \cup {"generate_embedding"}
  /\ \E outcome \in {"vector", "empty", "raise"} :
       IF outcome = "raise"
       THEN /\ query_embedding' = "unset"
            /\ response' = ExceptHandler(debug_mode, debug_info, "Exception")
            /\ debug_info' = response'.debug_info
            /\ pc' = "done"
       ELSE /\ query_embedding' = outcome
            /\ IF not_query_embedding(outcome)
               THEN /\ response' = EarlyReturn(debug_mode, debug_info,
                                               "Failed to generate embedding for query")
                    /\ debug_info' = response'.debug_info
                    /\ pc' = "done"
               ELSE /\ pc' = "call"
                    /\ UNCHANGED <<response, debug_info>>
  /\ UNCHANGED <<request, x_debug, debug_mode, fusion_k>>
  /\ UNCHANGED <<fusion_vars, idx_vector, idx_text, collection, native, heavier>>
  /\ UNCHANGED <<adapter_vars, serve_vars>>
  /\ UNCHANGED <<mongo_vars, chunk_vars>>

RouteCandidates ==
  NativeCandidates(request.limit, request.num_candidates_multiplier,
                   idx_vector, idx_text)

\* the call search_repo.hybrid_search_rrf(...) and what follows it
CallHybridSearchRrf ==
  /\ pc = "call"
  /\ pc' = "done"
  /\ IF CallBinds(HybridCallKeywords, HybridSearchRrfParameters,
                  HybridSearchRrfRequired)
     THEN \E outcome \in AggregateOutcomes, order \in Perms(RouteCandidates) :
            /\ native' = hybrid_search_rrf_native(
                           query_embedding, collection, request.limit,
                           request.vector_weight, request.text_weight,
                           request.num_candidates_multiplier,
                           idx_vector, idx_text, outcome, order)
            /\ steps' = steps \cup {"hybrid_search_rrf"}
            /\ fusion_k' = RankFusionK
            /\ response' = SearchResponse(native'.results, debug_info)
            /\ UNCHANGED debug_info
     ELSE /\ response' = ExceptHandler(debug_mode, debug_info, "TypeError")
          /\ debug_info' = response'.debug_info
          /\ UNCHANGED <<native, steps, fusion_k>>
  /\ UNCHANGED <<request, x_debug, debug_mode>>
  /\ UNCHANGED <<fusion_vars, idx_vector, idx_text, query_embedding, collection, heavier>>
  /\ UNCHANGED <<adapter_vars, serve_vars>>
  /\ UNCHANGED <<mongo_vars, chunk_vars>>

\* routes/search.py vector_search up to the repository: the debug flag and
\* the embedding of the query
VectorHandler ==
  /\ endpoint = "vector"
  /\ pc = "handler"
  /\ steps' = steps \cup {"vector_search", "generate_embedding"}
  /\ LET mode == get_debug_flag(x_debug)
         info == IF mode
                 THEN [EmptyDict EXCEPT !.keys = {"request"}]
                 ELSE NoDebugInfo
     IN /\ debug_mode' = mode
        /\ \E outcome \in {"vector", "empty", "raise"} :
             IF outcome = "raise"
             THEN /\ query_embedding' = "unset"
                  /\ response' = RouteExcept(mode, info, "Exception")
                  /\ debug_info' = response'.debug_info
                  /\ pc' = "done"
             ELSE /\ query_embedding' = outcome
                  /\ IF not_query_embedding(outcome)
                     THEN /\ response' = EarlyReturn(mode, info,
                                                     "Failed to generate embedding for query")
                          /\ debug_info' = response'.debug_info
                          /\ pc' = "done"
                     ELSE /\ debug_info' = info
                          /\ pc' = "repo"
                          /\ UNCHANGED response
  /\ UNCHANGED <<request, x_debug, fusion_k>>
  /\ UNCHANGED <<fusion_vars, idx_vector, idx_text, collection, native, heavier>>
  /\ UNCHANGED <<adapter_vars, serve_vars>>
  /\ UNCHANGED <<mongo_vars, chunk_vars>>

\* vector_search from the repository to the store call: with a collection the
\* handler enters search_repo.vector_search and, inside it, the blocking
\* collection.aggregate
VectorRepository ==
  /\ endpoint = "vector"
  /\ pc = "repo"
  /\ IF collection = None
     THEN /\ response' = EarlyReturn(debug_mode, debug_info,
                                     "MongoDB collection is not available")
          /\ debug_info' = response'.debug_info
          /\ pc' = "done"
     ELSE /\ pc' = "aggregate"
          /\ UNCHANGED <<response, debug_info>>
  /\ UNCHANGED <<request, x_debug, debug_mode, steps, fusion_k>>
  /\ UNCHANGED <<fusion_vars, native_vars, adapter_vars, serve_vars>>
  /\ UNCHANGED <<mongo_vars, chunk_vars>>

\* collection.aggregate ends; vector_search returns and the handler answers
VectorAggregate ==
  /\ endpoint = "vector"
  /\ pc = "aggregate"
  /\ \E outcome \in AggregateOutcomes :
       vector_run' = vector_search(query_embedding, collection, request.limit,
                                   request.num_candidates_multiplier,
                                   idx_vector, outcome)
  /\ response' = SearchResponse(vector_run'.results, debug_info)
  /\ pc' = "done"
  /\ UNCHANGED <<request, x_debug, debug_mode, debug_info, steps, fusion_k>>
  /\ UNCHANGED <<fusion_vars, native_vars, text_run, legacy_run, serve_vars>>
  /\ UNCHANGED <<mongo_vars, chunk_vars>>

\* routes/search.py text_search up to the store call
TextHandler ==
  /\ endpoint = "text"
  /\ pc = "handler"
  /\ steps' = steps \cup {"text_search"}
  /\ LET mode == get_debug_flag(x_debug)
         info == IF mode
                 THEN [EmptyDict EXCEPT !.keys = {"request"}]
                 ELSE NoDebugInfo
     IN /\ debug_mode' = mode
        /\ IF collection = None
           THEN /\ response' = EarlyReturn(mode, info,
                                           "MongoDB collection is not available")
                /\ debug_info' = response'.debug_info
                /\ pc' = "done"
           ELSE /\ debug_info' = info
                /\ pc' = "aggregate"
                /\ UNCHANGED response
  /\ UNCHANGED <<request, x_debug, fusion_k>>
  /\ UNCHANGED <<fusion_vars, native_vars, adapter_vars, serve_vars>>
  /\ UNCHANGED <<mongo_vars, chunk_vars>>

\* collection.aggregate ends; text_search returns and the handler answers
TextAggregate ==
  /\ endpoint = "text"
  /\ pc = "aggregate"
  /\ \E outcome \in AggregateOutcomes :
       text_run' = text_search(collection, request.limit, idx_text, outcome)
  /\ response' = SearchResponse(text_run'.results, debug_info)
  /\ pc' = "done"
  /\ UNCHANGED <<request, x_debug, debug_mode, debug_info, steps, fusion_k>>
  /\ UNCHANGED <<fusion_vars, native_vars, vector_run, legacy_run, serve_vars>>
  /\ UNCHANGED <<mongo_vars, chunk_vars>>

\* the caller disconnects or times out while the store call is outstanding;
\* the handler is inside the synchronous collection.aggregate, with no await
\* at which the cancellation could be delivered
Cancel ==
  /\ pc = "aggregate"
  /\ ~cancelled
  /\ cancelled' = TRUE
  /\ UNCHANGED <<request, fusion_vars, native_vars, route_vars, adapter_vars>>
  /\ UNCHANGED <<endpoint, first>>
  /\ UNCHANGED <<mongo_vars, chunk_vars>>

\* the same body is posted again with an X-Debug header of the other meaning
Resend ==
  /\ pc = "done"
  /\ ~first.sent
  /\ first' = [sent |-> TRUE, x_debug |-> x_debug, response |-> response,
               query_embedding |-> query_embedding, steps |-> steps,
               vector_run |-> vector_run, text_run |-> text_run,
               native |-> native]
  /\ \E header \in HeaderValues :
       /\ get_debug_flag(header) # get_debug_flag(x_debug)
       /\ x_debug' = header
  /\ pc' = "received"
  /\ debug_mode' = FALSE
  /\ debug_info' = NoDebugInfo
  /\ steps' = {}
  /\ fusion_k' = 0
  /\ response' = NoResponse
  /\ query_embedding' = "unset"
  /\ native' = NoNative
  /\ vector_run' = NoAdapterRun
  /\ text_run' = NoAdapterRun
  /\ cancelled' = FALSE
  /\ UNCHANGED <<request, fusion_vars, idx_vector, idx_text, collection, heavier>>
  /\ UNCHANGED <<legacy_run, endpoint>>
  /\ UNCHANGED <<mongo_vars, chunk_vars>>

RouteNext ==
  \/ ValidateRequest
  \/ HandlerEnter
  \/ GenerateEmbedding
  \/ CallHybridSearchRrf
  \/ VectorHandler
  \/ VectorRepository
  \/ VectorAggregate
  \/ TextHandler
  \/ TextAggregate
  \/ Cancel
  \/ Resend

RouteSpec == RouteInit /\ [][RouteNext]_vars

(***************************************************************************)
(* MongoSpec: db/mongodb.py, the MongoDB handle.  The calls come one at a  *)
(* time: every caller runs on the one event loop, and none of the methods  *)
(* awaits.                                                                 *)
(***************************************************************************)
MaxCalls == 9    \* calls made on the handle

\* no request is being served
IdleRequest ==
  [limit |-> 1, rrf_k |-> 60, vector_weight |-> 5, text_weight |-> 5,
   num_candidates_multiplier |-> 15]

\* cls._instance: None, or the object, known by the number of its creation
NoInstance == [is_none |-> TRUE, object |-> 0]

\* as if __new__ found no object on any call
instance_is_none_always(inst) == TRUE

\* `if cls._instance is None:` in __new__
instance_is_none(inst) == inst.is_none

\* how _initialize_connection ends: "ok"; "client" when get_settings or
\* MongoClient(...) raises; "database" when self._client[...] raises
ConnectOutcomes == {"ok", "client", "database"}

\* as if the except block cleared _db alone
initialize_connection_keeps_client(outcome) ==
  CASE outcome = "ok" -> [client |-> "client", db |-> "database"]
    [] outcome = "client" -> [client |-> None, db |-> None]
    [] OTHER -> [client |-> "client", db |-> None]

\* _initialize_connection: what it leaves in _client and _db
initialize_connection(outcome) ==
  IF outcome = "ok"
  THEN [client |-> "client", db |-> "database"]
  ELSE [client |-> None, db |-> None]

\* get_collection(collection_name) on an object holding cl and d; outcome:
\* how the re-initialisation ends if one is made
get_collection(cl, d, outcome) ==
  LET again == d = None
      held == IF again THEN initialize_connection(outcome)
              ELSE [client |-> cl, db |-> d]
  IN [client |-> held.client, db |-> held.db,
      attempts |-> IF again THEN 1 ELSE 0,
      raised |-> FALSE,
      result |-> IF held.db = None THEN None ELSE "collection"]

MongoInit ==
  /\ request = IdleRequest
  /\ FusionIdle
  /\ NativeIdle
  /\ RouteIdle

CallsLeft == handed.n < MaxCalls

CallNumber == handed.n + 1

\* get_mongodb(), which is MongoDB(): __new__ makes and connects the object
\* when there is none, and returns cls._instance
GetMongodb ==
  /\ CallsLeft
  /\ IF instance_is_none(instance)
     THEN \E outcome \in ConnectOutcomes :
            LET held == initialize_connection(outcome)
            IN /\ created' = created + 1
               /\ instance' = [is_none |-> FALSE, object |-> created']
               /\ connects' = connects + 1
               /\ client' = held.client
               /\ db' = held.db
     ELSE UNCHANGED <<instance, client, db, created, connects>>
  /\ handed' = [op |-> "get_mongodb", n |-> CallNumber,
                returned |-> instance'.object, before |-> instance]
  /\ UNCHANGED <<request, fusion_vars, native_vars, route_vars, adapter_vars>>
  /\ UNCHANGED <<serve_vars, chunk_vars>>

\* self.mongodb.get_collection(name), as the repositories' constructors call
\* it
GetCollection ==
  /\ CallsLeft
  /\ ~instance.is_none
  /\ \E outcome \in ConnectOutcomes :
       LET got == get_collection(client, db, outcome)
       IN /\ client' = got.client
          /\ db' = got.db
          /\ connects' = connects + got.attempts
          /\ handed' = [op |-> "get_collection", n |-> CallNumber,
                        held |-> db # None,
                        outcome |-> IF db = None THEN outcome ELSE "none",
                        attempts |-> got.attempts, raised |-> got.raised,
                        result |-> got.result]
  /\ UNCHANGED <<instance, created>>
  /\ UNCHANGED <<request, fusion_vars, native_vars, route_vars, adapter_vars>>
  /\ UNCHANGED <<serve_vars, chunk_vars>>

\* close_connection()
CloseConnection ==
  /\ CallsLeft
  /\ ~instance.is_none
  /\ IF client # None
     THEN client' = None /\ db' = None
     ELSE UNCHANGED <<client, db>>
  /\ handed' = [op |-> "close_connection", n |-> CallNumber]
  /\ UNCHANGED <<instance, created, connects>>
  /\ UNCHANGED <<request, fusion_vars, native_vars, route_vars, adapter_vars>>
  /\ UNCHANGED <<serve_vars, chunk_vars>>

MongoNext == GetMongodb \/ GetCollection \/ CloseConnection

MongoSpec == MongoInit /\ [][MongoNext]_vars

(***************************************************************************)
(* ChunkSpec: routes/chunks.py and db/repositories/chunks.py, the chunk    *)
(* requests create, get and update.  A document of the collection is kept  *)
(* as its _id, its id, its text and its embedding field; VECTOR_FIELD_NAME *)
(* is "embedding", the name of the Chunk model's display field too.        *)
(***************************************************************************)
MaxChunkOps == 2    \* chunk requests served

\* the _id the store gives the n-th document inserted
ObjectIds == <<"o1", "o2", "o3", "o4", "o5">>

ChunkIds == {"c1", "c10"}
Texts == {"t1", "t2"}

\* the vector generate_embedding returns for a text
EmbeddingOf(text) == IF text = "t1" THEN "v1" ELSE "v2"

Vectors == {"v1", "v2"}

\* the truncated representation get_chunk puts in place of the vector
Display == "display"

\* ObjectId.is_valid(chunk_id)
IsValidObjectId(chunk_id) == \E i \in 1..Len(ObjectIds) : ObjectIds[i] = chunk_id

\* {"id": {"$regex": ".*chunk_id.*"}}: the id holds chunk_id somewhere
RegexMatches(doc_id, chunk_id) ==
  /\ doc_id # None
  /\ \/ doc_id = chunk_id
     \/ <<chunk_id, doc_id>> \in {<<"c1", "c10">>}

\* find_one: the first, in natural order, of the places of the documents
\* that the filter takes, 0 when there is none
FindOne(places) ==
  IF places = {} THEN 0 ELSE CHOOSE i \in places : \A j \in places : i <= j

\* find_one({"id": chunk_id})
FindById(docs, chunk_id) ==
  FindOne({ i \in 1..Len(docs) : docs[i].id = chunk_id })

\* find_one({"_id": ObjectId(chunk_id)})
FindByObjectId(docs, chunk_id) ==
  FindOne({ i \in 1..Len(docs) : docs[i].oid = chunk_id })

\* find_one({"id": {"$regex": ".*chunk_id.*"}})
FindByRegex(docs, chunk_id) ==
  FindOne({ i \in 1..Len(docs) : RegexMatches(docs[i].id, chunk_id) })

NoChunk == [found |-> FALSE, oid |-> None, id |-> None, text |-> None,
            embedding |-> None]

\* ChunkRepository.get_chunk: by id, then by _id, then by the regex; the
\* Chunk it builds carries the display form of a stored vector
get_chunk(coll, docs, chunk_id) ==
  LET by_id == FindById(docs, chunk_id)
      by_oid == IF by_id = 0 /\ IsValidObjectId(chunk_id)
                THEN FindByObjectId(docs, chunk_id) ELSE by_id
      result == IF by_oid = 0 THEN FindByRegex(docs, chunk_id) ELSE by_oid
  IN IF coll = None \/ result = 0 THEN NoChunk
     ELSE [found |-> TRUE, oid |-> docs[result].oid, id |-> docs[result].id,
           text |-> docs[result].text,
           embedding |-> IF docs[result].embedding \in Vectors
                         THEN Display ELSE None]

\* ChunkRepository.update_chunk: update_one({"id": chunk_id}, {"$set": chunk})
\* and modified_count > 0
repo_update_chunk(coll, docs, chunk_id, chunk) ==
  LET at == FindById(docs, chunk_id)
      set == [oid |-> docs[at].oid, id |-> chunk.id, text |-> chunk.text,
              embedding |-> chunk.embedding]
  IN IF coll = None \/ at = 0
     THEN [documents |-> docs, result |-> FALSE]
     ELSE [documents |-> [docs EXCEPT ![at] = set],
           result |-> set # docs[at]]

\* ChunkRepository.create_chunk: insert_one of the chunk with its vector;
\* outcome: how insert_one ends
repo_create_chunk(coll, docs, chunk, embedding, outcome) ==
  IF coll = None THEN [documents |-> docs, raised |-> "ValueError"]
  ELSE IF outcome # "ok" THEN [documents |-> docs, raised |-> outcome]
  ELSE [documents |->
          Append(docs, [oid |-> ObjectIds[Len(docs) + 1], id |-> chunk.id,
                        text |-> chunk.text, embedding |-> embedding]),
        raised |-> ""]

\* as if the chunk were stored first and embedded afterwards
create_chunk_store_first(coll, docs, chunk, embedded, outcome) ==
  LET stored == repo_create_chunk(coll, docs, chunk, None, outcome)
  IN IF stored.raised # ""
     THEN [status |-> 500, documents |-> docs, steps |-> <<"insert_one">>]
     ELSE IF embedded = "raise"
     THEN [status |-> 500, documents |-> stored.documents,
           steps |-> <<"insert_one", "generate_embedding">>]
     ELSE [status |-> 200, documents |-> stored.documents,
           steps |-> <<"insert_one", "generate_embedding">>]

\* routes/chunks.py create_chunk; embedded: "raise", or what
\* generate_embedding returns, "vector" or "empty"
create_chunk(coll, docs, chunk, embedded, outcome) ==
  LET embedding == IF embedded = "vector" THEN EmbeddingOf(chunk.text) ELSE "empty"
      stored == repo_create_chunk(coll, docs, chunk, embedding, outcome)
  IN IF embedded = "raise"
     THEN [status |-> 500, documents |-> docs, steps |-> <<"generate_embedding">>]
     ELSE IF stored.raised # ""
     THEN [status |-> 500, documents |-> docs,
           steps |-> <<"generate_embedding", "insert_one">>]
     ELSE [status |-> 200, documents |-> stored.documents,
           steps |-> <<"generate_embedding", "insert_one">>]

\* routes/chunks.py get_chunk
route_get_chunk(coll, docs, chunk_id) ==
  LET chunk == get_chunk(coll, docs, chunk_id)
  IN IF coll = None THEN [status |-> 503, chunk |-> NoChunk]
     ELSE IF ~chunk.found THEN [status |-> 404, chunk |-> NoChunk]
     ELSE [status |-> 200, chunk |-> chunk]

\* routes/chunks.py update_chunk; embedded as in create_chunk, used when the
\* text differs from the stored one
update_chunk(coll, docs, chunk_id, chunk, embedded) ==
  LET existing_chunk == get_chunk(coll, docs, chunk_id)
      regenerate == existing_chunk.text # chunk.text
      embedding == IF regenerate /\ embedded = "vector"
                   THEN EmbeddingOf(chunk.text) ELSE None
      chunk_dict == IF embedding # None
                    THEN [chunk EXCEPT !.embedding = embedding] ELSE chunk
      updated == repo_update_chunk(coll, docs, chunk_id, chunk_dict)
      answer(st, d) == [status |-> st, documents |-> d,
                        existing_chunk |-> existing_chunk]
  IN IF ~existing_chunk.found THEN answer(404, docs)
     ELSE IF regenerate /\ embedded = "raise" THEN answer(500, docs)
     ELSE IF ~updated.result THEN answer(404, updated.documents)
     ELSE answer(200, updated.documents)

\* the bodies the chunk requests carry: a Chunk with its id, its text and
\* the display form of the embedding as a client got it, or none
ChunkPayloads ==
  [id : ChunkIds, text : Texts, embedding : {None, Display}]

StoredChunk(n, id, text) ==
  [oid |-> ObjectIds[n], id |-> id, text |-> text, embedding |-> EmbeddingOf(text)]

ChunkInit ==
  /\ request = IdleRequest
  /\ FusionIdle
  /\ NativeIdle
  /\ AdapterIdle
  /\ ServeIdle
  /\ MongoIdle
  /\ x_debug = None
  /\ pc = "idle"
  /\ debug_mode = FALSE
  /\ debug_info = NoDebugInfo
  /\ steps = {}
  /\ fusion_k = 0
  /\ response = NoResponse
  /\ documents \in { <<>>, <<StoredChunk(1, "c10", "t1")>>,
                      <<StoredChunk(1, "c1", "t1"), StoredChunk(2, "c10", "t2")>> }
  /\ documents_before = documents
  /\ chunk_op = NoCall

ChunkOpsLeft == chunk_op.n < MaxChunkOps /\ Len(documents) < Len(ObjectIds)

\* POST /chunks/
CreateChunk ==
  /\ ChunkOpsLeft
  /\ \E coll \in {"available", None}, chunk \in ChunkPayloads,
        embedded \in {"vector", "empty", "raise"}, outcome \in {"ok", "Exception"} :
       LET done == create_chunk(coll, documents, chunk, embedded, outcome)
       IN /\ documents' = done.documents
          /\ chunk_op' = [op |-> "create", n |-> chunk_op.n + 1, coll |-> coll,
                          chunk_id |-> chunk.id, chunk |-> chunk,
                          embedded |-> embedded, status |-> done.status,
                          steps |-> done.steps, returned |-> NoChunk]
  /\ documents_before' = documents
  /\ UNCHANGED <<request, fusion_vars, native_vars, route_vars, adapter_vars>>
  /\ UNCHANGED <<serve_vars, mongo_vars>>

\* GET /chunks/{chunk_id}
GetChunk ==
  /\ ChunkOpsLeft
  /\ \E coll \in {"available", None}, chunk_id \in ChunkIds \cup {"o1", "o2"} :
       LET done == route_get_chunk(coll, documents, chunk_id)
       IN chunk_op' = [op |-> "get", n |-> chunk_op.n + 1, coll |-> coll,
                       chunk_id |-> chunk_id, chunk |-> NoChunk,
                       embedded |-> "none", status |-> done.status,
                       steps |-> <<>>, returned |-> done.chunk]
  /\ documents_before' = documents
  /\ UNCHANGED documents
  /\ UNCHANGED <<request, fusion_vars, native_vars, route_vars, adapter_vars>>
  /\ UNCHANGED <<serve_vars, mongo_vars>>

\* PUT /chunks/{chunk_id}
UpdateChunk ==
  /\ ChunkOpsLeft
  /\ \E coll \in {"available", None}, chunk_id \in ChunkIds \cup {"o1", "o2"},
        chunk \in ChunkPayloads, embedded \in {"vector", "empty", "raise"} :
       LET done == update_chunk(coll, documents, chunk_id, chunk, embedded)
       IN /\ documents' = done.documents
          /\ chunk_op' = [op |-> "update", n |-> chunk_op.n + 1, coll |-> coll,
                          chunk_id |-> chunk_id, chunk |-> chunk,
                          embedded |-> embedded, status |-> done.status,
                          steps |-> <<>>, returned |-> done.existing_chunk]
  /\ documents_before' = documents
  /\ UNCHANGED <<request, fusion_vars, native_vars, route_vars, adapter_vars>>
  /\ UNCHANGED <<serve_vars, mongo_vars>>

ChunkNext == CreateChunk \/ GetChunk \/ UpdateChunk

ChunkSpec == ChunkInit /\ [][ChunkNext]_vars

(***************************************************************************)
(* Properties of the in-process fusion (FusionSpec).                       *)
(***************************************************************************)
Ran(run) == run.state # "none"

ResultIds(run) == [i \in 1..Len(run.results) |-> run.results[i].id]

\* what the fusion computed, without the raw component scores
RrfScores(run) == { <<e.id, e.rrf_score>> : e \in run.result_map }
RankedScores(run) ==
  [i \in 1..Len(run.results) |-> <<run.results[i].id, run.results[i].score>>]

\* weight * 1 / (rrf_k + rank), the weight in tenths, 0 for an absent id
WeightedTerm(weight, k, results, chunk_id) ==
  IF chunk_id \in IdsOf(results)
  THEN Frac(weight, 10 * (k + RankOf(results, chunk_id)))
  ELSE FZero

\* C1: for every id of the union of the two lists the fusion computes the
\* unscaled combined score vector_weight / (rrf_k + r_v) + text_weight /
\* (rrf_k + r_t) over the 0-based ranks, an absent side counting 0; and with
\* rrf_k = 60, both weights 0.5, vector list [A, B] and text list [B, C] the
\* resulting order is B, A, C.
C1_WeightedRrfScore ==
  Ran(fused) =>
    /\ \A e \in fused.result_map :
         e.rrf_score =
           FAdd(WeightedTerm(request.vector_weight, request.rrf_k,
                             vector_results, e.id),
                WeightedTerm(request.text_weight, request.rrf_k,
                             text_results, e.id))
    /\ ( /\ request.rrf_k = 60
         /\ request.vector_weight = 5
         /\ request.text_weight = 5
         /\ vector_results = VectorList(<<"A", "B">>, 1)
         /\ text_results = TextList(<<"B", "C">>) )
       => ( fused.state = "returned" /\ ResultIds(fused) = <<"B", "A", "C">> )

\* C2: two calls of hybrid_search_rrf with the same lists and parameters both
\* produce a final ordering of the results, with the same combined scores
\* and the same ordering, results of equal combined score included.
C2_Deterministic ==
  Ran(prev) =>
    /\ fused.state = "returned"
    /\ prev.state = "returned"
    /\ fused.results = prev.results
    /\ RrfScores(fused) = RrfScores(prev)

\* C5: fusing a non-empty vector list with an empty text list returns the
\* results in the vector list's rank order, each with text component 0.
C5_EmptyTextPureVector ==
  (Ran(fused) /\ vector_results # <<>> /\ text_results = <<>>) =>
    /\ fused.state = "returned"
    /\ ResultIds(fused) = [i \in 1..Len(vector_results) |-> vector_results[i].id]
    /\ \A e \in fused.result_map : e.text_score = 0

\* C6: with both lists empty the fusion returns the empty list and does not
\* raise.
C6_BothEmptyReturnsEmpty ==
  \A run \in {fused, prev, scaled.base, scaled.run} :
    (Ran(run) /\ vector_results = <<>> /\ text_results = <<>>) =>
      (run.state = "returned" /\ run.results = <<>>)

C6_Witness ==
  /\ vector_results = <<>>
  /\ text_results = <<>>
  /\ fused.state = "returned"
  /\ fused.results = <<>>

\* C7: multiplying every raw score of the vector list by a positive factor,
\* the order of the list and the text list kept, changes neither the combined
\* scores nor the outcome and ordering of the fusion.
C7_RankOnly ==
  Ran(scaled.base) =>
    /\ scaled.run.state = scaled.base.state
    /\ scaled.run.error = scaled.base.error
    /\ RrfScores(scaled.run) = RrfScores(scaled.base)
    /\ RankedScores(scaled.run) = RankedScores(scaled.base)

\* the raw scores of a non-empty vector list were multiplied and the fusion
\* saw the multiplied ones
C7_Witness ==
  /\ Ran(scaled.base)
  /\ scaled.factor > 1
  /\ text_results # <<>>
  /\ \E e \in scaled.base.result_map, f \in scaled.run.result_map :
       e.id = f.id /\ f.vector_score = scaled.factor * e.vector_score
                   /\ f.vector_score # e.vector_score

\* models/search.py: the fields of HybridSearchRequest
HybridSearchRequestFields ==
  {"query", "limit", "rrf_k", "vector_weight", "text_weight",
   "num_candidates_multiplier"}

Scenario9 ==
  /\ IdsOf(vector_results) = {"A", "B", "C"}
  /\ IdsOf(text_results) = {"B", "C", "D"}

Succeeded(run) == run.state = "returned" /\ run.error = ""

ReturnedIds(run) == { run.results[i].id : i \in 1..Len(run.results) }

RequestVectorPipeline ==
  VectorPipeline(idx_vector, request.limit * request.num_candidates_multiplier,
                 request.limit * 2)

CandidateScore(chunk_id) ==
  RankFusionScore(RequestVectorPipeline, FullTextPipeline(idx_text),
                  request.vector_weight, request.text_weight, chunk_id)

Position(results, chunk_id) ==
  IF \E i \in 1..Len(results) : results[i].id = chunk_id
  THEN CHOOSE i \in 1..Len(results) : results[i].id = chunk_id
  ELSE 0

AtOrAbove(results, a, b) ==
  /\ Position(results, a) # 0
  /\ Position(results, b) = 0 \/ Position(results, a) < Position(results, b)

Below(results, a, b) ==
  /\ Position(results, b) # 0
  /\ Position(results, a) = 0 \/ Position(results, b) < Position(results, a)

VectorOnly == Range(RequestVectorPipeline) \ Range(idx_text)
TextOnly == Range(idx_text) \ Range(RequestVectorPipeline)

\* C8: with the ranks and text_weight fixed, a larger vector_weight never
\* puts a candidate found only by the vector search below a candidate found
\* only by the text search if it was at or above it before.
C8_WeightMonotone ==
  (Succeeded(native) /\ Succeeded(heavier)) =>
    \A a \in VectorOnly, b \in TextOnly :
      AtOrAbove(native.results, a, b) => ~Below(heavier.results, a, b)

\* a vector-only candidate was at or above a text-only one, and both are
\* in the results of the call with the larger vector_weight
C8_Witness ==
  /\ Succeeded(native)
  /\ Succeeded(heavier)
  /\ heavier.vector_weight > request.vector_weight
  /\ \E a \in VectorOnly, b \in TextOnly :
       /\ AtOrAbove(native.results, a, b)
       /\ Position(heavier.results, a) # 0
       /\ Position(heavier.results, b) # 0

(***************************************************************************)
(* Properties of the hybrid route (RouteSpec).                             *)
(***************************************************************************)
\* C3: a valid hybrid request, served with the collection available and a
\* query embedding obtained, has the fusion run with the request's rrf_k as
\* its rank constant and is answered with the fused results, not with an
\* error.
C3_AppliesTuningParameters ==
  ( /\ endpoint = "hybrid"
    /\ pc = "done"
    /\ HybridSearchRequestValid(request)
    /\ collection = "available"
    /\ query_embedding = "vector" ) =>
    /\ "hybrid_search_rrf" \in steps
    /\ fusion_k = request.rrf_k
    /\ response.status = 200
    /\ "error" \notin response.debug_info.keys

\* the ranges the request's parameters have to be in
ParametersInRange ==
  /\ request.limit \in 1..20
  /\ request.rrf_k \in 1..100
  /\ request.vector_weight \in 0..10
  /\ request.text_weight \in 0..10

\* C10: a hybrid request with rrf_k, vector_weight, text_weight or limit out
\* of range is answered 422 with no step of the handler run: no embedding,
\* no retrieval, no fusion.
C10_RejectedAtBoundary ==
  ~ParametersInRange =>
    /\ pc \in {"received", "done"}
    /\ steps = {}
    /\ fusion_k = 0
    /\ query_embedding = "unset"
    /\ native = NoNative
    /\ pc = "done" => response.status = 422

\* a request with rrf_k below 1 has been answered 422
C10_Witness ==
  /\ request.rrf_k < 1
  /\ request.limit \in 1..20
  /\ request.vector_weight \in 0..10
  /\ request.text_weight \in 0..10
  /\ pc = "done"
  /\ response.status = 422
  /\ steps = {}

Served == pc = "done" /\ RequestValid(endpoint, request)

\* generate_embedding was called and gave no usable vector
EmbeddingFailed == "generate_embedding" \in steps /\ query_embedding # "vector"

ResponseIds == [i \in 1..Len(response.results) |-> response.results[i].id]

\* C12: when generating the query embedding fails in a vector or hybrid
\* search, the caller gets a well-formed response with no results and with
\* the reason in it, not a 500, whether or not X-Debug was sent.
C12_EmbeddingFailureIsNoResults ==
  (Served /\ endpoint \in {"vector", "hybrid"} /\ EmbeddingFailed) =>
    /\ response.status = 200
    /\ response.results = <<>>
    /\ "error" \in response.debug_info.keys

\* C13: a hybrid search whose query embedding is unavailable still runs the
\* text search and returns its ranking.
C13_DegradesToSingleMethod ==
  ( /\ Served
    /\ endpoint = "hybrid"
    /\ collection = "available"
    /\ EmbeddingFailed
    /\ idx_text # <<>> ) =>
    /\ response.status = 200
    /\ ResponseIds = SubSeq(idx_text, 1, Min(Len(idx_text), request.limit))

\* the hybrid handler made its call to hybrid_search_rrf and the call raised
FusionRaised ==
  /\ endpoint = "hybrid"
  /\ pc = "done"
  /\ query_embedding = "vector"
  /\ \/ ~CallBinds(HybridCallKeywords, HybridSearchRrfParameters,
                   HybridSearchRrfRequired)
     \/ native.error \in {"OperationFailure", "Exception"}

\* C14: when the fusion step of a hybrid search raises, the caller gets a
\* failure, never a normal response.
C14_FusionErrorSurfaced == FusionRaised => response.status # 200

\* the store could not be used: no collection, or the query failed
InfrastructureFailure ==
  \/ collection = None
  \/ \E run \in {vector_run, text_run, native} :
       run.error \in {"OperationFailure", "Exception"}

\* C15: on each of the three routes a search that meets a working store is
\* answered 200, with results [] when nothing is found, and a search that
\* meets an infrastructure failure is answered with an error.
C15_ErrorsOnlyForInfrastructure ==
  (Served /\ ~EmbeddingFailed) =>
    /\ InfrastructureFailure => response.status >= 500
    /\ ~InfrastructureFailure => response.status = 200
    /\ (~InfrastructureFailure /\ idx_vector = <<>> /\ idx_text = <<>>) =>
         response.results = <<>>

\* C16: when the caller gives up while a store call is outstanding, the
\* handler returns without the call's answer: it does not wait for the call
\* to end and does not hand on what the call returned.
C16_CancelAbandonsCall ==
  (cancelled /\ pc = "done") =>
    /\ vector_run.state = "none"
    /\ text_run.state = "none"
    /\ response.results = <<>>

\* the two requests met the same embedding and store behaviour
SameBehaviour ==
  /\ first.query_embedding = query_embedding
  /\ ("generate_embedding" \in first.steps) = ("generate_embedding" \in steps)
  /\ first.vector_run.state = vector_run.state
  /\ first.vector_run.error = vector_run.error
  /\ first.text_run.state = text_run.state
  /\ first.text_run.error = text_run.error
  /\ first.native.state = native.state
  /\ first.native.error = native.error

\* C17: two requests to one route that differ only in X-Debug and meet the
\* same embedding and store behaviour get the same results, total and
\* status, and each has debug_info in its response exactly when its flag was
\* set.
C17_DebugOnlyTelemetry ==
  (first.sent /\ Served /\ SameBehaviour) =>
    /\ response.results = first.response.results
    /\ response.status = first.response.status
    /\ response.debug_info.is_none = ~get_debug_flag(x_debug)
    /\ first.response.debug_info.is_none = ~get_debug_flag(first.x_debug)

(***************************************************************************)
(* Properties of the fused order (FusionSpec) and of the text score        *)
(* normalisation of search.py (AdapterSpec).                               *)
(***************************************************************************)
\* the ids in the order the merge meets them: the vector list in rank order,
\* then the ids only the text list has, in rank order
EncounterOrder(vr, tr) ==
  [i \in 1..Len(vr) |-> vr[i].id] \o
  SelectSeq([i \in 1..Len(tr) |-> tr[i].id], LAMBDA id : id \notin IdsOf(vr))

IndexIn(ids, id) == CHOOSE i \in 1..Len(ids) : ids[i] = id

\* a is ranked before b in the list the run returned
RankedBefore(run, a, b) ==
  /\ run.state = "returned"
  /\ a \in IdsOf(run.results)
  /\ b \in IdsOf(run.results)
  /\ RankOf(run.results, a) < RankOf(run.results, b)

\* C18: two fused candidates whose combined scores are exactly equal are
\* ranked in the order in which the merge first met them, the vector list
\* first and then the text list.
C18_TiesKeepEncounterOrder ==
  Ran(fused) =>
    \A a \in fused.result_map, b \in fused.result_map :
      LET met == EncounterOrder(vector_results, text_results)
      IN (a.rrf_score = b.rrf_score /\ IndexIn(met, a.id) < IndexIn(met, b.id))
           => RankedBefore(fused, a.id, b.id)

\* C19: the rescaling does not change the order: of two candidates the one
\* with the larger unscaled RRF sum is ranked before the other.
C19_RescalingKeepsOrder ==
  Ran(fused) =>
    \A a \in fused.result_map, b \in fused.result_map :
      FLess(b.rrf_score, a.rrf_score) => RankedBefore(fused, a.id, b.id)

\* C20: text_search gives every document found its raw score divided by the
\* largest raw score, a value from 0 to 1, gives 0 when the largest is 0,
\* and answers nothing found with an empty list without raising.
C20_DivideByMax ==
  (legacy_run.state # "none" /\ legacy_run.error # "Exception") =>
    LET raw == legacy_run.raw_scores
        out == legacy_run.results
    IN /\ legacy_run.state = "returned"
       /\ Len(out) = Len(raw)
       /\ \A i \in 1..Len(raw) :
            /\ out[i] = IF MaxOf(raw) > 0 THEN Frac(raw[i], MaxOf(raw)) ELSE FZero
            /\ ~FLess(out[i], FZero)
            /\ ~FLess(FOne, out[i])

\* C21: the fused output holds exactly one result for every id of the
\* vector list or the text list, and no result for any other id.
C21_OutputCoversUnion ==
  Ran(fused) =>
    /\ fused.state = "returned"
    /\ IdsOf(fused.results) = IdsOf(vector_results) \cup IdsOf(text_results)
    /\ Len(fused.results) = Cardinality(IdsOf(fused.results))

(***************************************************************************)
(* Properties of the routes' use of the query embedding (RouteSpec).       *)
(***************************************************************************)
\* the adapter went as far as sending its query to the store
QueryIssued(run) ==
  run.state # "none" /\ run.error \notin {"no query embedding", "no collection"}

\* C22: when generating the embedding fails or gives no vector, the vector
\* and hybrid routes send no vector query to the store: the handler never
\* reaches the store call and no adapter run has issued a query.
C22_NoVectorQueryWithoutEmbedding ==
  (endpoint \in {"vector", "hybrid"} /\ query_embedding # "vector") =>
    /\ pc \notin {"repo", "aggregate", "call"}
    /\ ~QueryIssued(vector_run)
    /\ ~QueryIssued(native)

\* a /vector request whose embedding came back empty has been answered
C22_Witness ==
  /\ endpoint = "vector"
  /\ pc = "done"
  /\ query_embedding = "empty"
  /\ "generate_embedding" \in steps
  /\ collection = "available"
  /\ idx_vector # <<>>

(***************************************************************************)
(* Properties of the candidates and scores of the store-side fusion        *)
(* (NativeSpec).                                                           *)
(***************************************************************************)
\* C23: each of the two branches of a hybrid search is asked for
\* num_candidates_multiplier * limit candidates, which is at least limit: the
\* vector stage is given that number, and neither branch hands the fusion
\* more candidates than that.
C23_BranchesOversampled ==
  Succeeded(native) =>
    LET asked == request.num_candidates_multiplier * request.limit
    IN /\ asked >= request.limit
       /\ Len(RequestVectorPipeline) <= asked
       /\ Len(FullTextPipeline(idx_text)) <= asked

\* the similarity or relevance the store gives the document at a position
\* of an index, as vector_search and text_search report it, in hundredths
RawScore(idx, chunk_id) == Frac(100 - 10 * DetailsRank(idx, chunk_id), 100)

\* C24: the vector_score and text_score of every hybrid result are the raw
\* similarity and relevance scores of the result in the lists that hold it,
\* not its RRF rank contributions.
C24_RawComponentScores ==
  Succeeded(native) =>
    \A i \in 1..Len(native.results) :
      LET r == native.results[i]
      IN /\ DetailsRank(RequestVectorPipeline, r.id) # 0
              => r.vector_score = RawScore(idx_vector, r.id)
         /\ DetailsRank(FullTextPipeline(idx_text), r.id) # 0
              => r.text_score = RawScore(idx_text, r.id)

(***************************************************************************)
(* Properties of the MongoDB handle (MongoSpec).                           *)
(***************************************************************************)
\* C25: there is never more than one MongoDB object; every get_mongodb()
\* returns that one object; the object is connected when it is made; and
\* while it holds a database no new connection is made.
C25_OneLazyHandle ==
  /\ [](/\ created <= 1
        /\ instance.is_none <=> created = 0
        /\ ~instance.is_none => connects >= 1
        /\ handed.op = "get_mongodb" =>
             /\ handed.returned = 1
             /\ handed.returned = instance.object)
  /\ [][db # None => connects' = connects]_vars

\* the handle was asked for again after it was made, and holds a database
C25_Witness ==
  /\ handed.op = "get_mongodb"
  /\ ~handed.before.is_none
  /\ handed.n >= 3
  /\ db # None

UpdateKeepsText(i) ==
  /\ chunk_op.op = "update"
  /\ chunk_op.coll = "available"
  /\ i \in 1..Len(documents_before)
  /\ i = FindById(documents_before, chunk_op.chunk_id)
  /\ documents_before[i].text = chunk_op.chunk.text

\* C26: an update that leaves the text of a chunk as it is leaves the
\* embedding stored for the chunk as it is.
C26_SameTextKeepsEmbedding ==
  \A i \in 1..Len(documents_before) :
    UpdateKeepsText(i) => documents[i].embedding = documents_before[i].embedding

\* C27: an update of a chunk that exists, found by get_chunk under the
\* requested id, reports success and not 404, also when the same body is
\* sent a second time and when get_chunk found the chunk by a fallback
\* lookup.
C27_UpdateOfExistingSucceeds ==
  ( /\ chunk_op.op = "update"
    /\ chunk_op.returned.found
    /\ chunk_op.embedded # "raise" ) => chunk_op.status = 200

\* C28: a chunk returned by get_chunk has the requested id as its id or as
\* its _id.
C28_ReturnsRequestedChunk ==
  (chunk_op.op = "get" /\ chunk_op.returned.found) =>
    \/ chunk_op.returned.id = chunk_op.chunk_id
    \/ chunk_op.returned.oid = chunk_op.chunk_id

\* C29: creating a chunk embeds the text before it writes the store; when
\* the embedding cannot be generated the request ends in an error, and a
\* request that ends in an error leaves the collection as it was.
C29_CreateEmbedsBeforeWrite ==
  chunk_op.op = "create" =>
    /\ chunk_op.embedded = "raise" => chunk_op.status = 500
    /\ chunk_op.status # 200 => documents = documents_before
    /\ chunk_op.steps[1] = "generate_embedding"
    /\ chunk_op.status = 200 =>
         /\ Len(documents) = Len(documents_before) + 1
         /\ documents[Len(documents)].embedding # None

\* the embedding failed for a chunk that the collection could have taken
C29_Witness ==
  /\ chunk_op.op = "create"
  /\ chunk_op.embedded = "raise"
  /\ chunk_op.coll = "available"
  /\ chunk_op.status = 500
  /\ documents = documents_before
  /\ documents # <<>>

====
